---- MODULE Spec2Model ----
(***************************************************************************)
(* BatchDatasetOp (tensorflow/core/kernels/data/batch_dataset_op.cc):      *)
(* the Dataset descriptor, its Iterator (Initialize, GetNextInternal,      *)
(* SaveInternal, RestoreInternal) and the per-component batch assembly     *)
(* with its optional worker-pool copies.                                   *)
(*                                                                         *)
(* Indices are 0-based as in the source (loop index i, component_index);   *)
(* TLA+ sequences are 1-based, so element i of a vector v is v[i + 1].     *)
(***************************************************************************)
EXTENDS Integers, Sequences, FiniteSets, TLC

(* ------------------------------ bounds -------------------------------- *)
\* longest upstream stream explored
MaxElems == 3
\* largest batch_size_ explored
MaxBatch == 3
\* how many environment failures (upstream error, allocation failure, copy
\* error, writer/reader error) one behaviour may contain
MaxFaults == 1
\* calls of GetNext and Restore in one behaviour: enough to drain the
\* longest stream with batch_size_ 1, see end_of_sequence, and call again
MaxCalls == MaxElems + 2
\* longest upstream stream, and largest batch_size_, explored with checkpoints
MaxCkptElems == 2
\* calls of GetNext and Restore in one behaviour with checkpoints
MaxCkptCalls == 3
\* longest upstream stream, and largest batch_size_, explored with two
\* caller threads
MaxConcElems == 2
\* calls of GetNext and Restore in one behaviour with two caller threads
MaxConcCalls == 3
\* longest upstream stream, and largest batch_size_, explored with two
\* caller threads that also checkpoint, on streams of same-shaped elements
MaxLockElems == 2
\* calls of GetNext and Restore in one behaviour of those two threads
MaxLockCalls == 2
\* longest upstream stream, largest batch_size_ and calls of GetNext explored
\* with two caller threads that only call GetNext
MaxPullElems == 3
MaxPullBatch == 2
MaxPullCalls == 3
\* largest |batch_size| given to MakeDataset, longest upstream stream and
\* calls of GetNext explored on the dataset it makes
MaxMakeBatch == 3
MaxMakeElems == 2
MaxMakeCalls == 2
\* largest finite upstream cardinality given to Cardinality()
MaxCard == 10
\* largest batch_size_ given to Cardinality()
MaxCardBatch == 3

(* --------------------------- value universe --------------------------- *)
\* component_index values of an element tuple (num_tuple_components = 2)
Components == {0, 1}
NumTupleComponents == Cardinality(Components)
\* the TensorShapes an element component can have
Shapes == {"2x3", "2x4"}
\* an upstream element: the shape of each of its components; its payload is
\* identified by its position in the stream
ElementShapes == [Components -> Shapes]
\* caller threads of one iterator
Threads == {1, 2}

\* int64 sentinels returned by DatasetBase::Cardinality()
kInfiniteCardinality == -1
kUnknownCardinality == -2

VARIABLES
    batch_size,      \* Dataset::batch_size_
    drop_remainder,  \* Dataset::drop_remainder_
    parallel_copy,   \* Dataset::parallel_copy_
    stream,          \* the elements the upstream dataset yields, in order
    callers,         \* the threads that call into this iterator
    lifecycle,       \* "NoDataset" until MakeDataset has made the descriptor, then
                     \* "Uninitialized", "Initializing", "Ready", "InitFailed"
    input_impl,      \* Iterator::input_impl_: [present, pos]
    mu,              \* Iterator::mu_: 0 when free, else the holding thread
    th,              \* per caller thread: position in its call and its locals
    tasks,           \* closures handed to (*ctx->runner()) and not yet finished
    ckpt,            \* what the last successful SaveInternal wrote
    saved,           \* every checkpoint written so far: what a reader can hold
    savedState,      \* input_impl_ as it was when ckpt was written
    getNextSinceSave,\* was GetNext called since ckpt was written
    justRestored,    \* RestoreInternal returned OK and no call was made since
    history,         \* the calls that have returned, in order of return
    callsLeft,       \* GetNext and Restore calls the behaviour may still start
    faults,          \* environment failures still allowed
    crashed,         \* the process died on a use of a destroyed call frame
    cardIn,          \* Cardinality(): [n, b, drop] under evaluation
    cardOut          \* Cardinality(): [done, value]

vars == <<batch_size, drop_remainder, parallel_copy, stream, callers, lifecycle,
          input_impl, mu, th, tasks, ckpt, saved, savedState,
          getNextSinceSave, justRestored, history, callsLeft, faults, crashed,
          cardIn, cardOut>>

config == <<batch_size, drop_remainder, parallel_copy, stream, callers>>
cardVars == <<cardIn, cardOut>>
iterVars == <<lifecycle, input_impl, mu, th, tasks, ckpt, saved, savedState,
              getNextSinceSave, justRestored, history, callsLeft, faults, crashed>>

(* ------------------------------ helpers ------------------------------- *)
RECURSIVE SeqsUpTo(_, _)
\* all sequences over S of length at most n
SeqsUpTo(S, n) ==
    IF n = 0 THEN {<<>>}
    ELSE LET shorter == SeqsUpTo(S, n - 1)
         IN  shorter \cup {Append(s, x) : s \in {q \in shorter : Len(q) = n - 1}, x \in S}

\* Status::OK() and the error statuses GetNextInternal can return
OKStatus == [code |-> "OK", comp |-> 0, index |-> 0]
ErrorStatus(code, comp, index) == [code |-> code, comp |-> comp, index |-> index]

\* a null std::unique_ptr<IteratorBase>
NullImpl == [present |-> FALSE, pos |-> 0]
\* an upstream iterator positioned before element pos (0-based)
ImplAt(pos) == [present |-> TRUE, pos |-> pos]

\* the Tensor of component c of the stream's k-th element (k is 1-based)
ElementTensor(k, c) == [shape |-> stream[k][c], val |-> <<k, c>>]
\* a slice of an allocated output tensor nothing was copied into yet
EmptySlice == <<0, 0>>
\* a Tensor whose allocation failed (IsInitialized() is false)
UninitializedTensor == [init |-> FALSE, n |-> 0, shape |-> "none", slices |-> <<>>]

\* no checkpoint written yet
NoCkpt == [valid |-> FALSE, empty |-> FALSE, pos |-> 0]

\* the locals of a thread that is not inside a call
IdleLocals ==
    [pc |-> "idle", i |-> 0, eos |-> FALSE, batch_elements |-> <<>>,
     comp |-> 0, out |-> <<>>, first_shape |-> "none", counter |-> 0,
     status |-> OKStatus, upstream |-> OKStatus, before |-> FALSE,
     reader |-> NoCkpt]

(* ---------------------- Dataset::Cardinality() ------------------------ *)
\* a faulty variant: the two conditions of the ternary joined by && instead of ||
CardinalityAndMutant(n, b, drop) ==
    IF n = kInfiniteCardinality \/ n = kUnknownCardinality
    THEN n
    ELSE (n \div b) + (IF (n % b = 0 /\ drop) THEN 0 ELSE 1)

\* int64 Cardinality(): n / batch_size_ + (n % batch_size_ == 0 ||
\* drop_remainder_ ? 0 : 1); n >= 0 here, where C++ / and % are \div and %
DatasetCardinality(n, b, drop) ==
    IF n = kInfiniteCardinality \/ n = kUnknownCardinality
    THEN n
    ELSE (n \div b) + (IF (n % b = 0 \/ drop) THEN 0 ELSE 1)

(* ------------------------- pure pieces of the code -------------------- *)
\* the outer dimension of every output_shapes_ entry the constructor
\* declares: batch_size_ under drop_remainder_, else unknown (-1)
OutputShapeOuterDim(b, drop) == IF drop THEN b ELSE -1

\* a faulty variant: >= instead of > in MakeDataset's check of batch_size
BatchSizeCheckGeMutant(b) == b >= 0

\* MakeDataset's OP_REQUIRES condition: batch_size > 0
BatchSizeValid(b) == b > 0

\* a faulty variant: !*end_of_sequence is missing from the loop condition
PullLoopIgnoresEosMutant(i, b, eos) == i < b

\* the pull loop's condition: i < batch_size_ && !*end_of_sequence
PullLoopContinues(i, b, eos) == i < b /\ ~eos

\* a faulty variant: input_impl_.reset() is missing after upstream's end of sequence
KeepHandleMutant(impl) == impl

\* input_impl_.reset() once upstream signalled end of sequence
ResetOnEndOfSequence(impl) == NullImpl

\* a faulty variant: the handle is reset when an upstream pull fails
ResetOnPullErrorMutant(impl) == NullImpl

\* a faulty variant: the upstream iterator is recreated when a pull fails
RewindOnPullErrorMutant(impl) == ImplAt(0)

\* TF_RETURN_IF_ERROR(input_impl_->GetNext(...)) returns the Status of a
\* failed pull and leaves input_impl_ as it is
HandleOnPullError(impl) == impl

\* a faulty variant: the test of drop_remainder_ and the size is missing
DropsRemainderMissingMutant(k, b, drop) == FALSE

\* a faulty variant: <= instead of < in the drop_remainder test
DropsRemainderLeMutant(k, b, drop) == drop /\ k <= b

\* drop_remainder_ && batch_elements.size() < batch_size_
DropsRemainder(k, b, drop) == drop /\ k < b

\* a faulty variant: the shape check is missing
ShapeCheckMissingMutant(shape, first_shape) == FALSE

\* batch_elements[i][component_index].shape() != first_element_shape
ShapeMismatch(shape, first_shape) == shape # first_shape

\* Status::Update: the first error is kept
StatusUpdate(status, s) == IF status.code = "OK" THEN s ELSE status

\* a faulty variant: component 0 of the element is moved, whatever
\* component_index is
CopyElementFnComponentMutant(out, elems, comp, index) ==
    [out EXCEPT ![comp + 1].slices[index + 1] = ElementTensor(elems[index + 1], 0).val]

\* a faulty variant: every element is copied into slice 0
CopyElementFnSliceMutant(out, elems, comp, index) ==
    [out EXCEPT ![comp + 1].slices[1] = ElementTensor(elems[index + 1], comp).val]

\* copy_element_fn(index) when CopyElementToSlice succeeds: element `index`'s
\* component is moved into slice `index` of batch_component (out_tensors->back())
CopyElementFn(out, elems, comp, index) ==
    [out EXCEPT ![comp + 1].slices[index + 1] =
         ElementTensor(elems[index + 1], comp).val]

\* the Tensor emplaced at the back of out_tensors: shape {num_batch_elements}
\* ++ first_element_shape
AllocatedTensor(n, first_shape) ==
    [init |-> TRUE, n |-> n, shape |-> first_shape,
     slices |-> [k \in 1..n |-> EmptySlice]]

(* ------------------------- checkpoint codec --------------------------- *)
\* SaveInput(writer, input_impl_): the upstream iterator's own state
SaveInput(impl) == [valid |-> TRUE, empty |-> FALSE, pos |-> impl.pos]

\* RestoreInput(ctx, reader, input_impl_): the upstream iterator is restored,
\* or recreated when the handle was absent, at the checkpointed position
RestoreInput(impl, ck) == ImplAt(ck.pos)

\* a faulty variant: the sentinel is written for a live handle too
SaveInternalSentinelMutant(impl) == [valid |-> TRUE, empty |-> TRUE, pos |-> 0]

\* SaveInternal's body: the kInputImplEmpty sentinel, or the upstream's state
SaveInternalState(impl) ==
    IF ~impl.present
    THEN [valid |-> TRUE, empty |-> TRUE, pos |-> 0]
    ELSE SaveInput(impl)

\* a faulty variant: the test of reader->Contains(kInputImplEmpty) is inverted
RestoreInternalInvertedMutant(impl, ck) ==
    IF ck.empty THEN RestoreInput(impl, ck) ELSE NullImpl

\* RestoreInternal's body
RestoreInternalState(impl, ck) ==
    IF ~ck.empty THEN RestoreInput(impl, ck) ELSE NullImpl

(* ------------------------------ returns ------------------------------- *)
\* the closures of thread t's current call still in the worker pool
PendingOf(t) == {k \in tasks : k.t = t /\ ~k.dangling}

\* what a returning call leaves in the history
Result(t, op, status, eos) ==
    [op |-> op, t |-> t, status |-> status, eos |-> eos,
     elems |-> th[t].batch_elements, out |-> th[t].out,
     pending |-> Cardinality(PendingOf(t)), before |-> th[t].before,
     reader |-> th[t].reader, upstream |-> th[t].upstream]

\* a call of thread t returns: its frame (batch_elements, counter, status,
\* status_mu, copy_element_fn) is destroyed, and the closures of this call
\* that are still in the pool now hold references into a destroyed frame
Return(t, op, status, eos) ==
    /\ history' = Append(history, Result(t, op, status, eos))
    /\ th' = [th EXCEPT ![t] = IdleLocals]
    /\ tasks' = {IF k.t = t THEN [k EXCEPT !.dangling = TRUE] ELSE k : k \in tasks}

(* ---------------------------- MakeDataset ----------------------------- *)
\* MakeDataset(ctx, input, output) with the batch_size and drop_remainder
\* arguments b and drop, on a kernel whose attribute parallel_copy is par
\* and whose op is BatchDataset (version 1) or BatchDatasetV2 (version 2):
\* OP_REQUIRES(batch_size > 0), drop_remainder is read for version 2 only,
\* then the Dataset is constructed. The call is recorded in the history
MakeDataset(b, drop, par, version) ==
    /\ lifecycle = "NoDataset"
    /\ history = <<>>
    /\ IF BatchSizeValid(b)
       THEN /\ batch_size' = b
            /\ drop_remainder' = (IF version > 1 THEN drop ELSE FALSE)
            /\ parallel_copy' = par
            /\ lifecycle' = "Uninitialized"
            /\ history' = <<[op |-> "make", batch_size |-> b, status |-> OKStatus]>>
       ELSE /\ history' = <<[op |-> "make", batch_size |-> b,
                             status |-> ErrorStatus("InvalidArgument", 0, 0)]>>
            /\ UNCHANGED <<batch_size, drop_remainder, parallel_copy, lifecycle>>
    /\ UNCHANGED <<stream, callers, cardVars, input_impl, mu, th, tasks, ckpt, saved,
                   savedState, getNextSinceSave, justRestored, callsLeft, faults,
                   crashed>>

(* ----------------------------- Initialize ----------------------------- *)
\* Initialize is entered (the framework calls it once, before the iterator
\* is handed to any caller); mu_ is not taken
InitializeCall(t) ==
    /\ ~crashed
    /\ t \in callers
    /\ lifecycle = "Uninitialized"
    /\ th[t].pc = "idle"
    /\ lifecycle' = "Initializing"
    /\ th' = [th EXCEPT ![t].pc = "init"]
    /\ UNCHANGED <<config, cardVars, input_impl, mu, tasks, ckpt, saved, savedState,
                   getNextSinceSave, justRestored, history, callsLeft, faults, crashed>>

\* input_->MakeIterator(ctx, prefix(), &input_impl_) writes the handle and
\* its Status is returned; a failed Initialize is recorded in the history
InitializeReturn(t) ==
    /\ ~crashed
    /\ t \in callers
    /\ th[t].pc = "init"
    /\ \/ /\ input_impl' = ImplAt(0)
          /\ lifecycle' = "Ready"
          /\ UNCHANGED <<faults, history>>
       \/ /\ faults > 0
          /\ faults' = faults - 1
          /\ lifecycle' = "InitFailed"
          /\ history' = Append(history,
                 [Result(t, "initialize", ErrorStatus("Upstream", 0, 0), FALSE)
                  EXCEPT !.upstream = ErrorStatus("Upstream", 0, 0)])
          /\ UNCHANGED input_impl
    /\ th' = [th EXCEPT ![t] = IdleLocals]
    /\ UNCHANGED <<config, cardVars, mu, tasks, ckpt, saved, savedState,
                   getNextSinceSave, justRestored, callsLeft, crashed>>

(* --------------------------- GetNextInternal -------------------------- *)
\* GetNextInternal is entered with an empty out_tensors
GetNextCall(t) ==
    /\ ~crashed
    /\ t \in callers
    /\ justRestored' = FALSE
    /\ lifecycle = "Ready"
    /\ th[t].pc = "idle"
    /\ callsLeft > 0
    /\ callsLeft' = callsLeft - 1
    /\ getNextSinceSave' = TRUE
    /\ th' = [th EXCEPT ![t].pc = "gn_lock"]
    /\ UNCHANGED <<config, cardVars, lifecycle, input_impl, mu, tasks, ckpt, saved,
                   savedState, history, faults, crashed>>

\* a faulty variant: the pull phase does not take mu_
GetNextLockNoMutexMutant(t) ==
    /\ ~crashed
    /\ t \in callers
    /\ th[t].pc = "gn_lock"
    /\ IF ~input_impl.present
       THEN Return(t, "get_next", OKStatus, TRUE)
       ELSE /\ th' = [th EXCEPT ![t].pc = "gn_pull", ![t].i = 0, ![t].eos = FALSE]
            /\ UNCHANGED <<history, tasks>>
    /\ UNCHANGED <<config, cardVars, lifecycle, input_impl, mu, ckpt, saved, savedState,
                   getNextSinceSave, justRestored, callsLeft, faults, crashed>>

\* mutex_lock l(mu_); if (!input_impl_) { *end_of_sequence = true; return OK }
\* batch_elements.reserve(...); *end_of_sequence = false
GetNextLock(t) ==
    /\ ~crashed
    /\ t \in callers
    /\ th[t].pc = "gn_lock"
    /\ mu = 0
    /\ IF ~input_impl.present
       THEN /\ Return(t, "get_next", OKStatus, TRUE)
            /\ UNCHANGED mu
       ELSE /\ mu' = t
            /\ th' = [th EXCEPT ![t].pc = "gn_pull", ![t].i = 0, ![t].eos = FALSE]
            /\ UNCHANGED <<history, tasks>>
    /\ UNCHANGED <<config, cardVars, lifecycle, input_impl, ckpt, saved, savedState,
                   getNextSinceSave, justRestored, callsLeft, faults, crashed>>

\* a faulty variant: the Status of a failed pull is dropped and the loop goes on
GetNextPullIgnoresErrorMutant(t) ==
    /\ ~crashed
    /\ t \in callers
    /\ th[t].pc = "gn_pull"
    /\ PullLoopContinues(th[t].i, batch_size, th[t].eos)
    /\ \/ /\ input_impl.pos < Len(stream)
          /\ input_impl' = ImplAt(input_impl.pos + 1)
          /\ th' = [th EXCEPT ![t].i = @ + 1,
                              ![t].batch_elements = Append(@, input_impl.pos + 1)]
          /\ UNCHANGED faults
       \/ /\ input_impl.pos = Len(stream)
          /\ input_impl' = ResetOnEndOfSequence(input_impl)
          /\ th' = [th EXCEPT ![t].i = @ + 1, ![t].eos = TRUE]
          /\ UNCHANGED faults
       \/ /\ faults > 0
          /\ faults' = faults - 1
          /\ th' = [th EXCEPT ![t].i = @ + 1,
                              ![t].upstream = ErrorStatus("Upstream", 0, 0)]
          /\ UNCHANGED input_impl
    /\ UNCHANGED <<config, cardVars, lifecycle, mu, history, tasks, ckpt, saved,
                   savedState, getNextSinceSave, justRestored, callsLeft, crashed>>

\* one iteration of the pull loop: input_impl_->GetNext yields the next
\* element, signals end of sequence, or fails (TF_RETURN_IF_ERROR)
GetNextPull(t) ==
    /\ ~crashed
    /\ t \in callers
    /\ th[t].pc = "gn_pull"
    /\ PullLoopContinues(th[t].i, batch_size, th[t].eos)
    /\ \/ /\ input_impl.pos < Len(stream)
          /\ input_impl' = ImplAt(input_impl.pos + 1)
          /\ th' = [th EXCEPT ![t].i = @ + 1,
                              ![t].batch_elements = Append(@, input_impl.pos + 1)]
          /\ UNCHANGED <<mu, history, tasks, faults>>
       \/ /\ input_impl.pos = Len(stream)
          /\ input_impl' = ResetOnEndOfSequence(input_impl)
          /\ th' = [th EXCEPT ![t].i = @ + 1, ![t].eos = TRUE]
          /\ UNCHANGED <<mu, history, tasks, faults>>
       \/ /\ faults > 0
          /\ faults' = faults - 1
          /\ mu' = 0
          /\ input_impl' = HandleOnPullError(input_impl)
          /\ history' = Append(history,
                 [Result(t, "get_next", ErrorStatus("Upstream", 0, 0), th[t].eos)
                  EXCEPT !.upstream = ErrorStatus("Upstream", 0, 0)])
          /\ th' = [th EXCEPT ![t] = IdleLocals]
          /\ UNCHANGED tasks
    /\ UNCHANGED <<config, cardVars, lifecycle, ckpt, saved, savedState,
                   getNextSinceSave, justRestored, callsLeft, crashed>>

\* a faulty variant: the lock's scope extends over the assembly
GetNextUnlockKeepsLockMutant(t) ==
    /\ ~crashed
    /\ t \in callers
    /\ th[t].pc = "gn_pull"
    /\ ~PullLoopContinues(th[t].i, batch_size, th[t].eos)
    /\ IF th[t].batch_elements = <<>>
       THEN mu' = 0 /\ Return(t, "get_next", OKStatus, th[t].eos)
       ELSE IF DropsRemainder(Len(th[t].batch_elements), batch_size, drop_remainder)
            THEN mu' = 0 /\ Return(t, "get_next", OKStatus, TRUE)
            ELSE /\ th' = [th EXCEPT ![t].pc = "asm_component", ![t].comp = 0]
                 /\ UNCHANGED <<mu, history, tasks>>
    /\ UNCHANGED <<config, cardVars, lifecycle, input_impl, ckpt, saved, savedState,
                   getNextSinceSave, justRestored, callsLeft, faults, crashed>>

\* the pull loop is left and the lock released; then the two early returns
\* (nothing accumulated; a short batch under drop_remainder_), else assembly
\* starts with component_index = 0
GetNextUnlock(t) ==
    /\ ~crashed
    /\ t \in callers
    /\ th[t].pc = "gn_pull"
    /\ ~PullLoopContinues(th[t].i, batch_size, th[t].eos)
    /\ mu' = 0
    /\ IF th[t].batch_elements = <<>>
       THEN Return(t, "get_next", OKStatus, th[t].eos)
       ELSE IF DropsRemainder(Len(th[t].batch_elements), batch_size, drop_remainder)
            THEN Return(t, "get_next", OKStatus, TRUE)
            ELSE /\ th' = [th EXCEPT ![t].pc = "asm_component", ![t].comp = 0]
                 /\ UNCHANGED <<history, tasks>>
    /\ UNCHANGED <<config, cardVars, lifecycle, input_impl, ckpt, saved, savedState,
                   getNextSinceSave, justRestored, callsLeft, faults, crashed>>

\* the head of the component loop: the output tensor of component_index is
\* emplaced at the back of out_tensors (allocated, or not initialized when the
\* allocation failed); after the last component GetNextInternal returns the
\* batch with *end_of_sequence = false
AsmComponent(t) ==
    /\ ~crashed
    /\ t \in callers
    /\ th[t].pc = "asm_component"
    /\ IF th[t].comp < NumTupleComponents
       THEN LET n == Len(th[t].batch_elements)
                first == ElementTensor(th[t].batch_elements[1], th[t].comp).shape
            IN  \/ /\ th' = [th EXCEPT ![t].pc = "asm_element",
                                       ![t].out = Append(@, AllocatedTensor(n, first)),
                                       ![t].first_shape = first,
                                       ![t].counter = n,
                                       ![t].status = OKStatus,
                                       ![t].i = 0]
                   /\ UNCHANGED <<history, tasks, faults>>
                \/ /\ faults > 0
                   /\ faults' = faults - 1
                   /\ history' = Append(history,
                          [Result(t, "get_next",
                                  ErrorStatus("ResourceExhausted", th[t].comp, 0),
                                  th[t].eos)
                           EXCEPT !.out = Append(th[t].out, UninitializedTensor)])
                   /\ th' = [th EXCEPT ![t] = IdleLocals]
                   /\ UNCHANGED tasks
       ELSE /\ Return(t, "get_next", OKStatus, FALSE)
            /\ UNCHANGED faults
    /\ UNCHANGED <<config, cardVars, lifecycle, input_impl, mu, ckpt, saved, savedState,
                   getNextSinceSave, justRestored, callsLeft, crashed>>

\* one iteration of the element loop: the shape check, then the copy, run
\* here or handed to the worker pool
AsmElement(t) ==
    /\ ~crashed
    /\ t \in callers
    /\ th[t].pc = "asm_element"
    /\ th[t].i < Len(th[t].batch_elements)
    /\ LET i == th[t].i
           c == th[t].comp
           shape == ElementTensor(th[t].batch_elements[i + 1], c).shape
       IN  IF ShapeMismatch(shape, th[t].first_shape)
           THEN /\ Return(t, "get_next", ErrorStatus("InvalidArgument", c, i), th[t].eos)
                /\ UNCHANGED faults
           ELSE IF parallel_copy
                THEN /\ tasks' = tasks \cup
                            {[t |-> t, comp |-> c, index |-> i, dangling |-> FALSE]}
                     /\ th' = [th EXCEPT ![t].i = @ + 1]
                     /\ UNCHANGED <<history, faults>>
                ELSE \/ /\ th' = [th EXCEPT ![t].i = @ + 1,
                                            ![t].counter = @ - 1,
                                            ![t].out = CopyElementFn(@, th[t].batch_elements, c, i)]
                        /\ UNCHANGED <<history, tasks, faults>>
                     \/ /\ faults > 0
                        /\ faults' = faults - 1
                        /\ th' = [th EXCEPT ![t].i = @ + 1,
                                            ![t].counter = @ - 1,
                                            ![t].status = StatusUpdate(@, ErrorStatus("Copy", c, i))]
                        /\ UNCHANGED <<history, tasks>>
    /\ UNCHANGED <<config, cardVars, lifecycle, input_impl, mu, ckpt, saved, savedState,
                   getNextSinceSave, justRestored, callsLeft, crashed>>

\* counter.Wait() returns once every copy of this component has decremented
\* the counter; TF_RETURN_IF_ERROR(status); else the next component
AsmWait(t) ==
    /\ ~crashed
    /\ t \in callers
    /\ th[t].pc = "asm_element"
    /\ th[t].i = Len(th[t].batch_elements)
    /\ th[t].counter = 0
    /\ IF th[t].status.code # "OK"
       THEN Return(t, "get_next", th[t].status, th[t].eos)
       ELSE /\ th' = [th EXCEPT ![t].pc = "asm_component", ![t].comp = @ + 1]
            /\ UNCHANGED <<history, tasks>>
    /\ UNCHANGED <<config, cardVars, lifecycle, input_impl, mu, ckpt, saved, savedState,
                   getNextSinceSave, justRestored, callsLeft, faults, crashed>>

\* a worker runs a closure whose call is still in its element loop or in
\* counter.Wait(): copy_element_fn(i), status.Update(s) under status_mu,
\* counter.DecrementCount()
RunTask(k) ==
    /\ ~crashed
    /\ k \in tasks
    /\ ~k.dangling
    /\ tasks' = tasks \ {k}
    /\ \/ /\ th' = [th EXCEPT ![k.t].counter = @ - 1,
                              ![k.t].out = CopyElementFn(@, th[k.t].batch_elements,
                                                         k.comp, k.index)]
          /\ UNCHANGED faults
       \/ /\ faults > 0
          /\ faults' = faults - 1
          /\ th' = [th EXCEPT ![k.t].counter = @ - 1,
                              ![k.t].status =
                                  StatusUpdate(@, ErrorStatus("Copy", k.comp, k.index))]
    /\ UNCHANGED <<config, cardVars, lifecycle, input_impl, mu, ckpt, saved, savedState,
                   getNextSinceSave, justRestored, history, callsLeft, crashed>>

\* a worker runs a closure whose call has already returned: every reference
\* it captured (copy_element_fn, status, status_mu, counter) points into the
\* destroyed frame. The behaviour is undefined: the run either goes unnoticed
\* or takes the process down
RunDanglingTask(k) ==
    /\ ~crashed
    /\ k \in tasks
    /\ k.dangling
    /\ tasks' = tasks \ {k}
    /\ \/ UNCHANGED crashed
       \/ crashed' = TRUE
    /\ UNCHANGED <<config, cardVars, lifecycle, input_impl, mu, th, ckpt, saved,
                   savedState, getNextSinceSave, justRestored, history, callsLeft, faults>>

(* ---------------------- SaveInternal / RestoreInternal ---------------- *)
\* SaveInternal takes mu_
SaveCall(t) ==
    /\ ~crashed
    /\ t \in callers
    /\ justRestored' = FALSE
    /\ lifecycle = "Ready"
    /\ th[t].pc = "idle"
    /\ mu = 0
    /\ mu' = t
    /\ th' = [th EXCEPT ![t].pc = "save"]
    /\ UNCHANGED <<config, cardVars, lifecycle, input_impl, tasks, ckpt, saved,
                   savedState, getNextSinceSave, history, callsLeft, faults, crashed>>

\* SaveInternal writes the sentinel or the upstream's state and returns; a
\* writer error leaves no usable checkpoint of this call
SaveBody(t) ==
    /\ ~crashed
    /\ t \in callers
    /\ th[t].pc = "save"
    /\ mu' = 0
    /\ th' = [th EXCEPT ![t] = IdleLocals]
    /\ \/ /\ ckpt' = SaveInternalState(input_impl)
          /\ saved' = saved \cup {SaveInternalState(input_impl)}
          /\ savedState' = input_impl
          /\ getNextSinceSave' = FALSE
          /\ UNCHANGED faults
       \/ /\ faults > 0
          /\ faults' = faults - 1
          /\ UNCHANGED <<ckpt, saved, savedState, getNextSinceSave>>
    /\ UNCHANGED <<config, cardVars, lifecycle, input_impl, tasks, history, justRestored,
                   callsLeft, crashed>>

\* RestoreInternal takes mu_; the reader holds one of the checkpoints written
RestoreCall(t) ==
    /\ ~crashed
    /\ t \in callers
    /\ justRestored' = FALSE
    /\ lifecycle = "Ready"
    /\ th[t].pc = "idle"
    /\ saved # {}
    /\ callsLeft > 0
    /\ callsLeft' = callsLeft - 1
    /\ mu = 0
    /\ mu' = t
    /\ \E r \in saved :
           th' = [th EXCEPT ![t].pc = "restore", ![t].before = input_impl.present,
                            ![t].reader = r]
    /\ UNCHANGED <<config, cardVars, lifecycle, input_impl, tasks, ckpt, saved,
                   savedState, getNextSinceSave, history, faults, crashed>>

\* RestoreInternal's body; RestoreInput can fail (TF_RETURN_IF_ERROR)
RestoreBody(t) ==
    /\ ~crashed
    /\ t \in callers
    /\ th[t].pc = "restore"
    /\ mu' = 0
    /\ \/ /\ input_impl' = RestoreInternalState(input_impl, th[t].reader)
          /\ Return(t, "restore", OKStatus, FALSE)
          /\ justRestored' = TRUE
          /\ UNCHANGED faults
       \/ /\ faults > 0
          /\ ~th[t].reader.empty
          /\ faults' = faults - 1
          /\ Return(t, "restore", ErrorStatus("Reader", 0, 0), FALSE)
          /\ UNCHANGED <<input_impl, justRestored>>
    /\ UNCHANGED <<config, cardVars, lifecycle, ckpt, saved, savedState,
                   getNextSinceSave, callsLeft, crashed>>

(* ------------------------- Cardinality() call ------------------------- *)
\* Dataset::Cardinality() is evaluated on the descriptor
CardinalityCall ==
    /\ ~cardOut.done
    /\ cardOut' = [done |-> TRUE,
                   value |-> DatasetCardinality(cardIn.n, cardIn.b, cardIn.drop)]
    /\ UNCHANGED <<config, iterVars, cardIn>>

(* --------------------------- specifications --------------------------- *)
IterInit ==
    /\ lifecycle = "Uninitialized"
    /\ input_impl = NullImpl
    /\ mu = 0
    /\ th = [t \in Threads |-> IdleLocals]
    /\ tasks = {}
    /\ ckpt = NoCkpt
    /\ saved = {}
    /\ savedState = NullImpl
    /\ getNextSinceSave = FALSE
    /\ justRestored = FALSE
    /\ history = <<>>
    /\ crashed = FALSE

\* the streams explored: the shapes of the first element are fixed, which
\* loses nothing because shapes are only compared for equality, component
\* by component
Streams(kinds, n) ==
    {q \in SeqsUpTo(kinds, n) : Len(q) > 0 => \A c \in Components : q[1][c] = "2x3"}

\* elements that can differ from each other in the shape of component 0 only
Comp0Kinds == {e \in ElementShapes : e[1] = "2x3"}

\* elements that all have the same shapes
UniformKinds == {e \in ElementShapes : \A c \in Components : e[c] = "2x3"}

\* three kinds of element: between them two elements of one batch can agree,
\* differ in component 0 only, in component 1 only, or in both
MixedKinds == {e \in ElementShapes : e[0] = "2x4" => e[1] = "2x4"}

CardIdle ==
    /\ cardIn = [n |-> 0, b |-> 1, drop |-> FALSE]
    /\ cardOut = [done |-> TRUE, value |-> 0]

\* the steps of a caller thread inside Initialize and GetNextInternal
CallerNext ==
    \/ \E t \in Threads : InitializeCall(t)
    \/ \E t \in Threads : InitializeReturn(t)
    \/ \E t \in Threads : GetNextCall(t)
    \/ \E t \in Threads : GetNextLock(t)
    \/ \E t \in Threads : GetNextPull(t)
    \/ \E t \in Threads : GetNextUnlock(t)
    \/ \E t \in Threads : AsmComponent(t)
    \/ \E t \in Threads : AsmElement(t)
    \/ \E t \in Threads : AsmWait(t)

\* the steps of the worker pool behind ctx->runner()
WorkerNext ==
    \/ \E k \in tasks : RunTask(k)
    \/ \E k \in tasks : RunDanglingTask(k)

\* the steps of a caller thread inside SaveInternal and RestoreInternal
CkptNext ==
    \/ \E t \in Threads : SaveCall(t)
    \/ \E t \in Threads : SaveBody(t)
    \/ \E t \in Threads : RestoreCall(t)
    \/ \E t \in Threads : RestoreBody(t)

\* one consumer pulls batches from its iterator
Init ==
    /\ batch_size \in 1..MaxBatch
    /\ drop_remainder \in BOOLEAN
    /\ parallel_copy \in BOOLEAN
    /\ stream \in Streams(MixedKinds, MaxElems)
    /\ callers = {1}
    /\ callsLeft = MaxCalls
    /\ faults = MaxFaults
    /\ IterInit
    /\ CardIdle

Next ==
    \/ CallerNext
    \/ WorkerNext

Spec == Init /\ [][Next]_vars

\* one consumer pulls batches, checkpoints and restores; copies run in the
\* calling thread (parallel_copy_ is false, so nothing reaches the pool)
InitCkpt ==
    /\ batch_size \in 1..MaxCkptElems
    /\ drop_remainder \in BOOLEAN
    /\ parallel_copy = FALSE
    /\ stream \in Streams(UniformKinds, MaxCkptElems)
    /\ callers = {1}
    /\ callsLeft = MaxCkptCalls
    /\ faults = MaxFaults
    /\ IterInit
    /\ CardIdle

NextCkpt ==
    \/ CallerNext
    \/ CkptNext

SpecCkpt == InitCkpt /\ [][NextCkpt]_vars

\* two threads call into one iterator
InitConc ==
    /\ batch_size \in 1..MaxConcElems
    /\ drop_remainder \in BOOLEAN
    /\ parallel_copy \in BOOLEAN
    /\ stream \in Streams(Comp0Kinds, MaxConcElems)
    /\ callers = Threads
    /\ callsLeft = MaxConcCalls
    /\ faults = 0
    /\ IterInit
    /\ CardIdle

NextConc ==
    \/ CallerNext
    \/ CkptNext
    \/ WorkerNext

SpecConc == InitConc /\ [][NextConc]_vars

\* two threads call GetNext, SaveInternal and RestoreInternal on one iterator
\* over same-shaped elements: no call returns on a shape mismatch, so no
\* closure outlives its call
InitLock ==
    /\ batch_size \in 1..MaxLockElems
    /\ drop_remainder \in BOOLEAN
    /\ parallel_copy \in BOOLEAN
    /\ stream \in Streams(UniformKinds, MaxLockElems)
    /\ callers = Threads
    /\ callsLeft = MaxLockCalls
    /\ faults = 0
    /\ IterInit
    /\ CardIdle

NextLock ==
    \/ CallerNext
    \/ CkptNext
    \/ \E k \in tasks : RunTask(k)

SpecLock == InitLock /\ [][NextLock]_vars

\* two threads call GetNext on one iterator over same-shaped elements
InitPull ==
    /\ batch_size \in 1..MaxPullBatch
    /\ drop_remainder \in BOOLEAN
    /\ parallel_copy \in BOOLEAN
    /\ stream \in Streams(UniformKinds, MaxPullElems)
    /\ callers = Threads
    /\ callsLeft = MaxPullCalls
    /\ faults = MaxFaults
    /\ IterInit
    /\ CardIdle

NextPull ==
    \/ CallerNext
    \/ \E k \in tasks : RunTask(k)

SpecPull == InitPull /\ [][NextPull]_vars

\* MakeDataset is called with any batch_size; one consumer pulls batches
\* from the dataset it makes, if it makes one
InitMake ==
    /\ batch_size = 0
    /\ drop_remainder = FALSE
    /\ parallel_copy = FALSE
    /\ stream \in Streams(Comp0Kinds, MaxMakeElems)
    /\ callers = {1}
    /\ callsLeft = MaxMakeCalls
    /\ faults = 0
    /\ lifecycle = "NoDataset"
    /\ input_impl = NullImpl
    /\ mu = 0
    /\ th = [t \in Threads |-> IdleLocals]
    /\ tasks = {}
    /\ ckpt = NoCkpt
    /\ saved = {}
    /\ savedState = NullImpl
    /\ getNextSinceSave = FALSE
    /\ justRestored = FALSE
    /\ history = <<>>
    /\ crashed = FALSE
    /\ CardIdle

NextMake ==
    \/ \E b \in (-MaxMakeBatch)..MaxMakeBatch, drop \in BOOLEAN, par \in BOOLEAN,
          version \in {1, 2} : MakeDataset(b, drop, par, version)
    \/ CallerNext
    \/ WorkerNext

SpecMake == InitMake /\ [][NextMake]_vars

\* Cardinality() on descriptors over every upstream cardinality
CardInit ==
    /\ batch_size = 1
    /\ drop_remainder = FALSE
    /\ parallel_copy = FALSE
    /\ stream = <<>>
    /\ callers = {}
    /\ callsLeft = 0
    /\ faults = 0
    /\ IterInit
    /\ cardIn \in [n : {kInfiniteCardinality, kUnknownCardinality} \cup 0..MaxCard,
                   b : 1..MaxCardBatch, drop : BOOLEAN]
    /\ cardOut = [done |-> FALSE, value |-> 0]

CardNext == CardinalityCall

SpecCard == CardInit /\ [][CardNext]_vars

(* ------------------------- reading the history ------------------------ *)
IsGetNext(e) == e.op = "get_next"
\* the call returned OK with *end_of_sequence = true
IsEos(e) == IsGetNext(e) /\ e.status.code = "OK" /\ e.eos
\* the call returned OK with *end_of_sequence = false: a batch
IsBatch(e) == IsGetNext(e) /\ e.status.code = "OK" /\ ~e.eos
\* the call returned an error
IsError(e) == IsGetNext(e) /\ e.status.code # "OK"
\* no RestoreInternal returned between history entries i and j
NoRestoreBetween(i, j) == \A k \in i..j : history[k].op # "restore"
\* the last call that returned
Last == history[Len(history)]
\* RestoreInternal has just returned OK and nothing was called since
JustRestored ==
    /\ justRestored
    /\ Len(history) > 0 /\ Last.op = "restore" /\ Last.status.code = "OK"
    /\ \A t \in callers : th[t].pc = "idle"

(* ------------------------------- C1 ----------------------------------- *)
\* C1: without a restore in between, once a GetNext call has returned
\* end_of_sequence = true, every GetNext call that returns later also returns
\* OK with end_of_sequence = true and leaves out_tensors empty; and from that
\* return on the upstream handle is absent.
C1_EndOfSequenceIsTerminal ==
    /\ \A i, j \in 1..Len(history) :
           (i < j /\ IsEos(history[i]) /\ IsGetNext(history[j]) /\ NoRestoreBetween(i, j))
               => (IsEos(history[j]) /\ history[j].out = <<>>)
    /\ (\E i \in 1..Len(history) : IsEos(history[i]) /\ NoRestoreBetween(i, Len(history)))
           => ~input_impl.present

\* a short batch was discarded under drop_remainder_ with end_of_sequence =
\* true, and a later call returned
C1_Witness ==
    \E i, j \in 1..Len(history) :
        /\ i < j
        /\ IsEos(history[i]) /\ history[i].elems # <<>>
        /\ IsEos(history[j]) /\ history[j].elems = <<>>
        /\ NoRestoreBetween(i, j)

(* ------------------------------- C2 ----------------------------------- *)
\* the batch sizes the claim promises for n elements: n \div b batches of b
\* elements, then one of n % b elements unless it is empty or dropped
ExpectedSizes(n, b, drop) ==
    [k \in 1..(n \div b) |-> b] \o
        (IF ~drop /\ n % b # 0 THEN <<n % b>> ELSE <<>>)

\* the outer dimension of every component of a returned batch, or -1 when
\* the components disagree
BatchSize(e) ==
    IF Len(e.out) = NumTupleComponents /\ \A c \in 1..Len(e.out) : e.out[c].n = e.out[1].n
    THEN e.out[1].n
    ELSE -1

\* history[j] is the first end_of_sequence and every call before it
\* returned a batch
DrainedWithoutError(j) ==
    /\ IsEos(history[j])
    /\ \A i \in 1..(j - 1) : IsBatch(history[i])

\* C2 (amended): when every GetNext call before the first end_of_sequence =
\* true succeeds, those calls return exactly  Len(stream) \div batch_size
\* batches of batch_size elements, followed by one batch of
\* Len(stream) % batch_size elements iff that is not 0 and drop_remainder is
\* false.
C2_BatchCounts ==
    \A j \in 1..Len(history) :
        DrainedWithoutError(j) =>
            [i \in 1..(j - 1) |-> BatchSize(history[i])]
                = ExpectedSizes(Len(stream), batch_size, drop_remainder)

\* three elements drained in batches of two: one full batch and the rest
C2_Witness ==
    /\ Len(stream) = 3 /\ batch_size = 2 /\ ~drop_remainder
    /\ Len(history) = 3
    /\ DrainedWithoutError(3)
    /\ BatchSize(history[1]) = 2 /\ BatchSize(history[2]) = 1

\* C2 as claimed: with an upstream that never fails (here: no failure of
\* any kind is injected), the batches returned before the first
\* end_of_sequence = true have exactly the promised sizes.
C2_Original ==
    \A j \in 1..Len(history) :
        (/\ faults = MaxFaults
         /\ IsEos(history[j])
         /\ \A i \in 1..(j - 1) : ~IsEos(history[i]))
            => LET batches == SelectSeq(SubSeq(history, 1, j - 1), IsBatch)
               IN  [i \in 1..Len(batches) |-> BatchSize(batches[i])]
                       = ExpectedSizes(Len(stream), batch_size, drop_remainder)

(* ------------------------------- C3 ----------------------------------- *)
\* C3: when RestoreInternal returns OK with the checkpoint SaveInternal
\* wrote and no GetNext was called in between, the iterator is in the state
\* it was in when it was saved (handle absent, or the upstream iterator at
\* the same position), so its later GetNext calls see the same upstream.
C3_SaveRestoreRoundTrip ==
    (JustRestored /\ Last.reader = ckpt /\ ~getNextSinceSave)
        => input_impl = savedState

\* an Active iterator that has consumed elements was saved and restored
C3_Witness ==
    /\ JustRestored
    /\ Last.reader = ckpt
    /\ ~getNextSinceSave
    /\ savedState.present
    /\ savedState.pos > 0
    /\ input_impl = savedState

(* ------------------------------- C4 ----------------------------------- *)
\* C4: GetNext never returns an error while a copy closure it handed to the
\* worker pool is still pending or running.
C4_NoErrorWhileTasksPending ==
    \A j \in 1..Len(history) : IsError(history[j]) => history[j].pending = 0

(* ------------------------------- C5 ----------------------------------- *)
\* C5: when GetNext returns an error, out_tensors holds no tensor added by
\* that call.
C5_NoPartialBatchOnError ==
    \A j \in 1..Len(history) : IsError(history[j]) => history[j].out = <<>>

(* ------------------------------- C6 ----------------------------------- *)
\* thread t is inside the part of Initialize, GetNextInternal's pull phase,
\* SaveInternal or RestoreInternal that reads or writes input_impl_
AccessesHandle(t) == th[t].pc \in {"init", "gn_pull", "save", "restore"}

\* C6: a thread reads or writes input_impl_ only while it holds mu_, and no
\* two threads are inside such an access at the same time.
C6_HandleAccessUnderLock ==
    /\ \A t \in callers : AccessesHandle(t) => mu = t
    /\ \A t, u \in callers : (AccessesHandle(t) /\ AccessesHandle(u)) => t = u

MismatchesIn(elems, c) ==
    {i \in 0..(Len(elems) - 1) : stream[elems[i + 1]][c] # stream[elems[1]][c]}
HasMismatch(elems) == \E c \in Components : MismatchesIn(elems, c) # {}
Min(S) == CHOOSE x \in S : \A y \in S : x <= y
FirstMismatchComp(elems) == Min({c \in Components : MismatchesIn(elems, c) # {}})
FirstMismatchIndex(elems) == Min(MismatchesIn(elems, FirstMismatchComp(elems)))

\* C8 (amended): a batch is returned only if in every component every
\* accumulated element has element 0's shape. An InvalidArgument error
\* reports the first component with a mismatch and the smallest mismatching
\* index in it. When some accumulated element's shape differs, GetNext
\* returns no batch, and fails with InvalidArgument unless the call ends
\* before that check: the accumulation is discarded under drop_remainder,
\* an upstream pull fails, an allocation fails in that component or an
\* earlier one, or a copy fails in an earlier component.
C8_ShapeMismatchReported ==
    \A j \in 1..Len(history) :
        LET e == history[j]
        IN  IsGetNext(e) =>
              /\ IsBatch(e) => ~HasMismatch(e.elems)
              /\ e.status.code = "InvalidArgument" =>
                    /\ HasMismatch(e.elems)
                    /\ e.status.comp = FirstMismatchComp(e.elems)
                    /\ e.status.index = FirstMismatchIndex(e.elems)
              /\ HasMismatch(e.elems) =>
                    \/ e.status.code = "InvalidArgument"
                    \/ IsEos(e) /\ drop_remainder /\ Len(e.elems) < batch_size
                    \/ e.status.code = "Upstream"
                    \/ e.status.code = "ResourceExhausted"
                           /\ e.status.comp <= FirstMismatchComp(e.elems)
                    \/ e.status.code = "Copy"
                           /\ e.status.comp < FirstMismatchComp(e.elems)

\* a mismatch in component 1 only, at the last of three elements, reported
\* by a parallel-copy iterator
C8_Witness ==
    /\ parallel_copy
    /\ \E j \in 1..Len(history) :
           /\ history[j].status = ErrorStatus("InvalidArgument", 1, 2)
           /\ MismatchesIn(history[j].elems, 0) = {}
           /\ MismatchesIn(history[j].elems, 1) = {2}

\* C8 as claimed: whenever some accumulated element's shape differs from
\* element 0's, GetNext fails with InvalidArgument naming the first such
\* component and index (here already in behaviours without any injected
\* failure).
C8_Original ==
    \A j \in 1..Len(history) :
        LET e == history[j]
        IN  (faults = MaxFaults /\ IsGetNext(e) /\ HasMismatch(e.elems)) =>
                e.status = ErrorStatus("InvalidArgument", FirstMismatchComp(e.elems),
                                       FirstMismatchIndex(e.elems))

(* ------------------------------- C9 ----------------------------------- *)
\* the batch that stacks the accumulated elements: slice i of component c
\* holds element i's component c
StackedBatch(elems) ==
    [c \in 1..NumTupleComponents |->
        [init |-> TRUE, n |-> Len(elems), shape |-> stream[elems[1]][c - 1],
         slices |-> [i \in 1..Len(elems) |-> <<elems[i], c - 1>>]]]

RECURSIVE ConcatElems(_)
\* the elements accumulated by the calls of a history, in order
ConcatElems(h) ==
    IF h = <<>> THEN <<>> ELSE h[1].elems \o ConcatElems(Tail(h))

C10_Cardinality ==
    cardOut.done =>
        LET n == cardIn.n
            b == cardIn.b
            r == cardOut.value
        IN  /\ n \in {kInfiniteCardinality, kUnknownCardinality} => r = n
            /\ n >= 0 =>
                 /\ r = (n \div b) + (IF n % b # 0 /\ ~cardIn.drop THEN 1 ELSE 0)
                 /\ cardIn.drop => (r * b <= n /\ n < (r + 1) * b)
                 /\ ~cardIn.drop => ((r - 1) * b < n /\ n <= r * b)
            /\ (n = 10 /\ b = 3) => r = (IF cardIn.drop THEN 3 ELSE 4)

\* Cardinality() was evaluated for 10 elements in batches of 3, remainder kept
C10_Witness ==
    /\ cardOut.done
    /\ cardIn = [n |-> 10, b |-> 3, drop |-> FALSE]
    /\ cardOut.value = 4

(* ------------------------------- C11 ---------------------------------- *)
\* C11: every batch GetNext returns has an outer dimension that agrees with
\* the declared output shape: exactly batch_size elements when
\* drop_remainder is true, between 1 and batch_size elements when it is
\* false; under drop_remainder a call that accumulated fewer than batch_size
\* elements returns end_of_sequence = true and no tensor.
C11_BatchOuterDimension ==
    \A j \in 1..Len(history) :
        LET e == history[j]
            declared == OutputShapeOuterDim(batch_size, drop_remainder)
        IN  /\ IsBatch(e) =>
                  /\ BatchSize(e) = Len(e.elems)
                  /\ 1 <= BatchSize(e) /\ BatchSize(e) <= batch_size
                  /\ drop_remainder => BatchSize(e) = batch_size
                  /\ declared = -1 \/ declared = BatchSize(e)
            /\ (/\ IsGetNext(e) /\ e.status.code = "OK" /\ drop_remainder
                 /\ e.elems # <<>> /\ Len(e.elems) < batch_size)
                    => (e.eos /\ e.out = <<>>)

\* under drop_remainder a full batch of at least two elements was returned
\* and the undersized rest was discarded
C11_Witness ==
    /\ drop_remainder
    /\ batch_size >= 2
    /\ \E i, j \in 1..Len(history) :
           /\ i < j
           /\ IsBatch(history[i]) /\ BatchSize(history[i]) = batch_size
           /\ IsEos(history[j]) /\ history[j].elems # <<>>
           /\ Len(history[j].elems) < batch_size

(* ------------------------------- C12 ---------------------------------- *)
\* C12: a step of GetNext turns the handle from present to absent only when
\* it is the pull in which upstream signals end of sequence, and a step in
\* which GetNext returns an error leaves the handle as it was.
C12_HandleAbsentOnlyOnEndOfSequence ==
    [][/\ (input_impl.present /\ ~input_impl'.present) =>
              \E t \in callers :
                  th[t].pc = "gn_pull" /\ ~th[t].eos /\ th'[t].eos
       /\ (Len(history') = Len(history) + 1 /\ IsError(history'[Len(history')]))
              => input_impl' = input_impl]_vars

\* an Active iterator is still Active after a call that failed on a shape
\* mismatch without having seen upstream's end of sequence
C12_Witness ==
    /\ Len(history) > 0
    /\ Last.status.code = "InvalidArgument"
    /\ Len(Last.elems) = batch_size
    /\ input_impl.present
    /\ th[1].pc = "idle"

(* ------------------------------- C13 ---------------------------------- *)
\* C13: when an upstream pull fails, GetNext returns in that very step (no
\* call is ever found past a failed pull) with the Status upstream gave,
\* with an empty out_tensors and without having handed anything to the
\* pool; when MakeIterator fails, Initialize returns its Status.
C13_UpstreamErrorPropagates ==
    /\ \A t \in callers : th[t].upstream = OKStatus
    /\ \A j \in 1..Len(history) :
           LET e == history[j]
           IN  e.upstream # OKStatus =>
                  /\ e.status = e.upstream
                  /\ e.out = <<>>
                  /\ e.pending = 0
                  /\ ~IsBatch(e)
    /\ lifecycle = "InitFailed" =>
           /\ Len(history) = 1
           /\ history[1].op = "initialize"
           /\ history[1].status = history[1].upstream
           /\ history[1].status # OKStatus

\* a pull failed after two elements had been accumulated
C13_Witness ==
    \E j \in 1..Len(history) :
        /\ IsGetNext(history[j])
        /\ history[j].status.code = "Upstream"
        /\ Len(history[j].elems) = 2

(* ------------------------------- C14 ---------------------------------- *)
\* C14: MakeDataset called with batch_size <= 0 fails with InvalidArgument
\* and makes no descriptor; a descriptor that exists, and every iterator
\* call on it, has batch_size > 0.
C14_BatchSizePositive ==
    /\ lifecycle # "NoDataset" => batch_size > 0
    /\ \A t \in callers : th[t].pc # "idle" => batch_size > 0
    /\ \A j \in 1..Len(history) :
           (history[j].op = "make" /\ history[j].batch_size <= 0) =>
               /\ history[j].status.code = "InvalidArgument"
               /\ lifecycle = "NoDataset"
               /\ Len(history) = 1

\* MakeDataset was called with batch_size 0 and failed
C14_Witness ==
    /\ history = <<[op |-> "make", batch_size |-> 0,
                    status |-> ErrorStatus("InvalidArgument", 0, 0)]>>
    /\ lifecycle = "NoDataset"

(* ------------------------------- C15 ---------------------------------- *)
\* C15: with parallel_copy false, inside the element loop of a component
\* the elements are checked and moved in index order (no slice at or beyond
\* the loop index is filled), and once the check or the move of an element
\* has failed no element with a larger index is checked or moved (the loop
\* index does not pass the failed element).
C15_SequentialShortCircuit ==
    \A t \in callers :
        (~parallel_copy /\ th[t].pc = "asm_element") =>
            /\ \A k \in 1..Len(th[t].batch_elements) :
                   k > th[t].i => th[t].out[th[t].comp + 1].slices[k] = EmptySlice
            /\ th[t].status.code # "OK" => th[t].i <= th[t].status.index + 1

(* ------------------------------- C16 ---------------------------------- *)
\* C16: a step that pulls from upstream (the loop index of a call in its
\* pull phase advances, or the pull fails) is taken only while fewer than
\* batch_size pulls were made in the call, upstream has not signalled end
\* of sequence in it, and the handle is present, under mu_; the pull in
\* which upstream signals end of sequence leaves the handle absent; and
\* once Initialize has returned, without restore an absent handle stays
\* absent, so upstream is never pulled again.
C16_NoPullAfterEndOfSequence ==
    [][/\ \A t \in callers :
              (th[t].pc = "gn_pull" /\ (th'[t].i = th[t].i + 1 \/ faults' # faults)) =>
                  /\ th[t].i < batch_size
                  /\ ~th[t].eos
                  /\ input_impl.present
                  /\ mu = t
       /\ \A t \in callers : (~th[t].eos /\ th'[t].eos) => ~input_impl'.present
       /\ (lifecycle = "Ready" /\ ~input_impl.present) => ~input_impl'.present]_vars

\* a call has stopped pulling at upstream's end of sequence, before
\* batch_size pulls, with elements accumulated
C16_Witness ==
    /\ th[1].pc = "gn_pull"
    /\ th[1].eos
    /\ th[1].i < batch_size
    /\ th[1].batch_elements # <<>>
    /\ ~input_impl.present

(* ------------------------------- C17 ---------------------------------- *)
RECURSIVE ConcatSlices(_, _)
\* the slices of component c of the batches of a history, in order
ConcatSlices(h, c) ==
    IF h = <<>> THEN <<>> ELSE h[1].out[c + 1].slices \o ConcatSlices(Tail(h), c)

\* the values of component c of the first n upstream elements
UpstreamValues(n, c) == [k \in 1..n |-> <<k, c>>]

\* C17 (amended): as long as every GetNext call of the single consumer has
\* returned a batch, the slices of the batches, in batch order and slice
\* order, are a prefix of the upstream sequence in every component, and
\* slice i of a batch holds the i-th element pulled in its call; when the
\* calls before the first end_of_sequence all returned a batch and
\* drop_remainder is false, the slices are the whole upstream sequence.
C17_BatchesConcatenateToUpstream ==
    \A j \in 1..Len(history) :
        /\ (\A i \in 1..j : IsBatch(history[i])) =>
               /\ \A c \in Components :
                      \E n \in 0..Len(stream) :
                          ConcatSlices(SubSeq(history, 1, j), c) = UpstreamValues(n, c)
               /\ \A c \in Components, i \in 1..Len(history[j].elems) :
                      history[j].out[c + 1].slices[i] = <<history[j].elems[i], c>>
        /\ (DrainedWithoutError(j) /\ ~drop_remainder) =>
               \A c \in Components :
                   ConcatSlices(SubSeq(history, 1, j - 1), c)
                       = UpstreamValues(Len(stream), c)

\* three elements were returned as a batch of two and a batch of one
C17_Witness ==
    /\ ~drop_remainder
    /\ Len(stream) = 3
    /\ Len(history) = 3
    /\ DrainedWithoutError(3)
    /\ ConcatSlices(SubSeq(history, 1, 2), 1) = <<<<1, 1>>, <<2, 1>>, <<3, 1>>>>
    /\ Len(history[1].elems) = 2

\* C17 as claimed: with an error-free upstream (here: no failure of any
\* kind is injected) and drop_remainder false, the slices of the batches
\* returned before the first end_of_sequence = true are exactly the
\* upstream sequence.
C17_Original ==
    \A j \in 1..Len(history) :
        (/\ faults = MaxFaults
         /\ ~drop_remainder
         /\ IsEos(history[j])
         /\ \A i \in 1..(j - 1) : ~IsEos(history[i]))
            => \A c \in Components :
                   ConcatSlices(SelectSeq(SubSeq(history, 1, j - 1), IsBatch), c)
                       = UpstreamValues(Len(stream), c)

(* ------------------------------- C18 ---------------------------------- *)
\* thread t is in the assembly phase of GetNext: allocating, copying or
\* waiting for the pool
Assembling(t) == th[t].pc \in {"asm_component", "asm_element"}

\* C18: a thread holds mu_ throughout its pull phase and never in its
\* assembly phase, so while a call assembles, mu_ is free or held by another
\* thread's GetNext, SaveInternal or RestoreInternal, which does not wait
\* for the assembly.
C18_LockReleasedBeforeAssembly ==
    \A t \in callers :
        /\ th[t].pc = "gn_pull" => mu = t
        /\ Assembling(t) => mu # t
        /\ Assembling(t) =>
               \A u \in callers \ {t} :
                   th[u].pc \in {"gn_pull", "save", "restore"} => mu = u

\* thread 1 waits for its copies in the pool while thread 2, whose call
\* pulled the element after thread 1's, has already returned its batch and
\* has then saved the iterator
C18_Witness ==
    /\ th[1].pc = "asm_element"
    /\ th[2].pc = "idle"
    /\ ckpt.valid /\ ~ckpt.empty /\ ckpt.pos = 2
    /\ th[1].batch_elements = <<1>>
    /\ th[1].i = 1
    /\ th[1].counter > 0
    /\ \E j \in 1..Len(history) :
           /\ history[j].t = 2
           /\ IsBatch(history[j])
           /\ history[j].elems = <<2>>

(* ------------------------------- C19 ---------------------------------- *)
\* the runs of upstream elements accumulated so far: by the GetNext calls
\* that have returned, and by the calls in progress
ReturnedRuns == {j \in 1..Len(history) : IsGetNext(history[j])}
RunOfReturned(j) == history[j].elems
Contiguous(r) == \A i \in 1..(Len(r) - 1) : r[i + 1] = r[i] + 1
Elems(r) == {r[i] : i \in 1..Len(r)}
\* a run that is not empty and has fewer than batch_size elements
Short(r) == r # <<>> /\ Len(r) < batch_size

\* the calls whose pull phase is over and that accumulated a short run
ShortCalls ==
    {<<"returned", j>> : j \in {k \in ReturnedRuns : Short(RunOfReturned(k))}}
        \cup {<<"assembling", t>> : t \in {u \in callers : Assembling(u)
                                                  /\ Short(th[u].batch_elements)}}

\* the run of every call is contiguous and in upstream order, and the runs
\* of different calls are disjoint
RunsContiguousAndDisjoint ==
    /\ \A j \in ReturnedRuns : Contiguous(RunOfReturned(j))
    /\ \A t \in callers : Contiguous(th[t].batch_elements)
    /\ \A i, j \in ReturnedRuns :
           i # j => Elems(RunOfReturned(i)) \cap Elems(RunOfReturned(j)) = {}
    /\ \A j \in ReturnedRuns, t \in callers :
           Elems(RunOfReturned(j)) \cap Elems(th[t].batch_elements) = {}
    /\ \A t, u \in callers :
           t # u => Elems(th[t].batch_elements) \cap Elems(th[u].batch_elements) = {}

\* C19 (amended): under any interleaving of concurrent GetNext calls the
\* elements accumulated by each call are a contiguous run of the upstream
\* sequence in upstream order and the runs of different calls are disjoint;
\* and as long as no upstream pull has failed, at most one call has
\* accumulated a run that is not empty and shorter than batch_size.
C19_ContiguousDisjointRuns ==
    /\ RunsContiguousAndDisjoint
    /\ (\A j \in 1..Len(history) : history[j].upstream = OKStatus)
           => Cardinality(ShortCalls) <= 1

\* with batch_size 2, thread 1 accumulated elements 1 and 2 and thread 2
\* then element 3, and thread 2's call returned first
C19_Witness ==
    \E i, j \in 1..Len(history) :
        /\ i < j
        /\ history[i].t = 2 /\ history[i].elems = <<3>>
        /\ history[j].t = 1 /\ history[j].elems = <<1, 2>>

\* C19 as claimed: the runs are contiguous and disjoint, and at most one
\* call accumulates a run that is not empty and shorter than batch_size.
C19_Original ==
    /\ RunsContiguousAndDisjoint
    /\ Cardinality(ShortCalls) <= 1

(* ------------------------------- C20 ---------------------------------- *)
\* history[j] is a GetNext call in which an upstream pull failed after at
\* least one element had been accumulated
FailedAfterAccumulating(j) ==
    /\ IsGetNext(history[j])
    /\ history[j].upstream # OKStatus
    /\ history[j].elems # <<>>

\* the upstream elements whose values are in the tensors a call returned
ElemsInTensors(e) ==
    UNION {{e.out[c].slices[i][1] : i \in 1..e.out[c].n} : c \in 1..Len(e.out)}

\* C20: the elements a GetNext call had accumulated when an upstream pull
\* failed are in no tensor and no accumulation of any later GetNext call;
\* the handle is still present, and the next call's accumulation starts
\* with the element that follows them in the upstream sequence.
C20_AccumulatedElementsDiscardedOnPullError ==
    \A j \in 1..Len(history) :
        FailedAfterAccumulating(j) =>
            LET lost == Elems(history[j].elems)
                last == history[j].elems[Len(history[j].elems)]
            IN  /\ history[j].out = <<>>
                /\ \A i \in (j + 1)..Len(history) :
                       /\ Elems(history[i].elems) \cap lost = {}
                       /\ ElemsInTensors(history[i]) \cap lost = {}
                /\ \A t \in callers :
                       /\ Elems(th[t].batch_elements) \cap lost = {}
                       /\ \A c \in 1..Len(th[t].out) :
                              \A i \in 1..th[t].out[c].n :
                                  th[t].out[c].slices[i][1] \notin lost
                /\ (j = Len(history) /\ \A t \in callers : th[t].pc \in {"idle", "gn_lock"}) =>
                       (input_impl.present /\ input_impl.pos = last)
                /\ (j < Len(history) /\ history[j + 1].elems # <<>>) =>
                       history[j + 1].elems[1] = last + 1

\* a pull failed after element 1 had been accumulated, and the next call
\* returned elements 2 and 3 as a batch
C20_Witness ==
    \E j \in 1..Len(history) :
        /\ j < Len(history)
        /\ FailedAfterAccumulating(j)
        /\ history[j].elems = <<1>>
        /\ IsBatch(history[j + 1])
        /\ history[j + 1].elems = <<2, 3>>
        /\ ElemsInTensors(history[j + 1]) = {2, 3}

====
